---- MODULE Spec2Model ----
(***************************************************************************)
(* A model of the Love Letter game engine (src/src/game.rs) together with  *)
(* the Deck, Player, Card, Action and Event types it is built from.        *)
(*                                                                         *)
(* Conventions                                                             *)
(*   - Option<T> is a sequence of length at most one: <<>> is None and     *)
(*     <<x>> is Some(x).                                                   *)
(*   - A Vec<T> is a sequence; Vec::pop takes the LAST element.            *)
(*   - self.players is a function from the seat indices 0..n-1.            *)
(*   - A Card is its discriminant 1..8 (card.rs), so the derived Ord is    *)
(*     the order of the integers.                                          *)
(*   - The methods of Game take and return the record `g` of Game's five   *)
(*     fields, with two more fields threaded through a handler: `events`   *)
(*     (the local Vec<Event> being built) and `panic` (an unwrap() of None *)
(*     has happened).                                                      *)
(***************************************************************************)
EXTENDS Integers, Sequences, FiniteSets, TLC

VARIABLES
    deck,           \* Game.deck.cards
    burned_card,    \* Game.burned_card : Option<Card>
    players,        \* Game.players     : seat index -> Player
    turn_counter,   \* Game.turn_counter
    state,          \* Game.state       : GameState
    pc,             \* "idle" between calls, "next_player" inside that loop,
                    \* "returned" while the caller holds the Result, "panicked"
    events,         \* the handler's local Vec<Event> while it is running
    player_idx,     \* the local `player_idx` of next_player's loop
    spins,          \* iterations of next_player's loop done by the running handler
    action,         \* the Action last handed to perform_action
    result,         \* what perform_action returned for it
    removed         \* cards reported by RemoveCardFromGame events of this game

vars == <<deck, burned_card, players, turn_counter, state, pc, events,
          player_idx, spins, action, result, removed>>

(***************************************************************************)
(* card.rs                                                                 *)
(***************************************************************************)
Guard == 1
Priest == 2
Baron == 3
Handmaid == 4
Prince == 5
King == 6
Countess == 7
Princess == 8

Card == Guard..Princess

has_target(c) == c \in {Guard, Priest, Baron, Prince, King}

(***************************************************************************)
(* Model bounds                                                            *)
(***************************************************************************)
\* Seat and target indices offered to PlayCard run from 0 to MaxIndex.
MaxIndex == 4
\* Player counts offered to StartGame run from 1 to MaxCount.
MaxCount == 5
\* next_player's loop is followed for at most MaxSpin iterations.
MaxSpin == 5

(***************************************************************************)
(* Option<T> and Vec<T> helpers                                            *)
(***************************************************************************)
None == <<>>
Some(x) == <<x>>
is_none(o) == o = <<>>
\* Option::or
or(a, b) == IF a # <<>> THEN a ELSE b
\* Option::unwrap: the value, or (with panicked(o)) any card at all
unwrap(o) == IF o # <<>> THEN o[1] ELSE Guard
panicked(o) == o = <<>>

Range(seq) == {seq[i] : i \in DOMAIN seq}

RECURSIVE SumSeq(_)
SumSeq(seq) == IF seq = <<>> THEN 0 ELSE Head(seq) + SumSeq(Tail(seq))

\* 0..n-1 as a sequence, the iteration order of (0..n)
Indices(n) == [i \in 1..n |-> i - 1]

(***************************************************************************)
(* deck.rs                                                                 *)
(***************************************************************************)
Deck_new == <<Guard, Guard, Guard, Guard, Guard,
              Priest, Priest,
              Baron, Baron,
              Handmaid, Handmaid,
              Prince, Prince,
              King,
              Countess,
              Princess>>

\* Deck::pop -> [card: Option<Card>, cards: what is left]
Deck_pop(cards) ==
    IF cards = <<>> THEN [card |-> None, cards |-> cards]
    ELSE [card |-> Some(cards[Len(cards)]),
          cards |-> SubSeq(cards, 1, Len(cards) - 1)]

Deck_is_empty(cards) == Len(cards) = 0

(***************************************************************************)
(* player.rs                                                               *)
(***************************************************************************)
Player_new == [hand |-> <<>>, discards |-> <<>>, protected |-> FALSE, active |-> TRUE]

give_card(pl, c) == [pl EXCEPT !.hand = Append(@, c)]

\* Vec::iter().position(|&c| c == card)
position(hand, c) ==
    IF \E i \in DOMAIN hand : hand[i] = c
    THEN Some(CHOOSE i \in DOMAIN hand : hand[i] = c /\ \A j \in 1..(i - 1) : hand[j] # c)
    ELSE None

\* Player::play_card with the card discarded before it is looked for
Player_play_card_discards_first(pl, c) ==
    LET index == position(pl.hand, c)
        pl1 == [pl EXCEPT !.discards = Append(@, c)]
    IN IF index # None
       THEN [ok |-> TRUE,
             pl |-> [pl1 EXCEPT !.hand = SubSeq(pl.hand, 1, index[1] - 1)
                                          \o SubSeq(pl.hand, index[1] + 1, Len(pl.hand))]]
       ELSE [ok |-> FALSE, pl |-> pl1]

\* Player::play_card leaving the played card in the hand
Player_play_card_hand_kept(pl, c) ==
    LET index == position(pl.hand, c) IN
    IF index # None
    THEN [ok |-> TRUE, pl |-> [pl EXCEPT !.discards = Append(@, c)]]
    ELSE [ok |-> FALSE, pl |-> pl]

\* Player::play_card -> [ok, pl]
Player_play_card(pl, c) ==
    LET index == position(pl.hand, c) IN
    IF index # None
    THEN [ok |-> TRUE,
          pl |-> [pl EXCEPT !.hand = SubSeq(pl.hand, 1, index[1] - 1)
                                      \o SubSeq(pl.hand, index[1] + 1, Len(pl.hand)),
                            !.discards = Append(@, c)]]
    ELSE [ok |-> FALSE, pl |-> pl]

is_holding_card(pl, c) == c \in Range(pl.hand)

\* Player::card
card(pl) == IF Len(pl.hand) = 1 THEN Some(pl.hand[1]) ELSE None

\* Player::take_card -> [card: Option<Card>, pl]
take_card(pl) ==
    LET c == card(pl) IN
    [card |-> c,
     pl |-> IF c # None
            THEN [pl EXCEPT !.discards = Append(@, c[1]), !.hand = <<>>]
            ELSE pl]

value_of_discards(pl) == SumSeq(pl.discards)

make_protected(pl) == [pl EXCEPT !.protected = TRUE]
make_unprotected(pl) == [pl EXCEPT !.protected = FALSE]
eliminate(pl) == [pl EXCEPT !.active = FALSE]

(***************************************************************************)
(* event.rs: the Event variants, as records tagged by `type`               *)
(***************************************************************************)
NewGame(n) == [type |-> "NewGame", players |-> n]
RegisterPlayer(idx) == [type |-> "RegisterPlayer", player_idx |-> idx]
BurnCard == [type |-> "BurnCard"]
RemoveCardFromGame(c) == [type |-> "RemoveCardFromGame", card |-> c]
DealCard(idx, c) == [type |-> "DealCard", player_idx |-> idx, card |-> c]
ReadyToPlay(idx) == [type |-> "ReadyToPlay", player_idx |-> idx]
PlayCardEvent(idx, c) == [type |-> "PlayCard", player_idx |-> idx, card |-> c]
Guess(target, c) == [type |-> "Guess", target_idx |-> target, guess |-> c]
ShowCard(idx, target, c) ==
    [type |-> "ShowCard", player_idx |-> idx, target_idx |-> target, card |-> c]
CompareHands(idx, pc_, target, tc) ==
    [type |-> "CompareHands", player_idx |-> idx, player_card |-> pc_,
     target_idx |-> target, target_card |-> tc]
DiscardCard(target, c) == [type |-> "DiscardCard", target_idx |-> target, card |-> c]
SwapHands(idx, pc_, target, tc) ==
    [type |-> "SwapHands", player_idx |-> idx, player_card |-> pc_,
     target_idx |-> target, target_card |-> tc]
EliminatePlayer(idx) == [type |-> "EliminatePlayer", player_idx |-> idx]
RevealCard(idx, c) == [type |-> "RevealCard", player_idx |-> idx, card |-> c]
GameOver(winners) == [type |-> "GameOver", winner_indices |-> winners]

(***************************************************************************)
(* action.rs: PlayCardDetails, as records tagged by `details`              *)
(***************************************************************************)
PlayGuard(t, c) == [details |-> "PlayGuard", target_idx |-> t, guess |-> c]
PlayPriest(t) == [details |-> "PlayPriest", target_idx |-> t]
PlayBaron(t) == [details |-> "PlayBaron", target_idx |-> t]
PlayHandmaid == [details |-> "PlayHandmaid"]
\* PlayPrince's target_idx is a usize where the others carry an Option<usize>:
\* the field is named `target` here to keep the two types apart
PlayPrince(t) == [details |-> "PlayPrince", target |-> t]
PlayKing(t) == [details |-> "PlayKing", target_idx |-> t]
PlayCountess == [details |-> "PlayCountess"]
PlayPrincess == [details |-> "PlayPrincess"]

\* PlayCardDetails::card
details_card(d) ==
    CASE d.details = "PlayGuard" -> Guard
      [] d.details = "PlayPriest" -> Priest
      [] d.details = "PlayBaron" -> Baron
      [] d.details = "PlayHandmaid" -> Handmaid
      [] d.details = "PlayPrince" -> Prince
      [] d.details = "PlayKing" -> King
      [] d.details = "PlayCountess" -> Countess
      [] d.details = "PlayPrincess" -> Princess

\* PlayCardDetails::target
details_target(d) ==
    CASE d.details \in {"PlayGuard", "PlayPriest", "PlayBaron", "PlayKing"} -> d.target_idx
      [] d.details = "PlayPrince" -> Some(d.target)
      [] OTHER -> None

(***************************************************************************)
(* game.rs: GameState and GameError                                        *)
(***************************************************************************)
NotStarted == "NotStarted"
InProgress == "InProgress"
Complete == "Complete"

InvalidNumberOfPlayers(n) == [error |-> "InvalidNumberOfPlayers", players |-> n]
GameNotInProgress == [error |-> "GameNotInProgress"]
PlayerDoesNotExist(idx) == [error |-> "PlayerDoesNotExist", player |-> idx]
PlayedOutOfTurn(idx) == [error |-> "PlayedOutOfTurn", player |-> idx]
PlayerDoesNotHaveCard(idx, c) == [error |-> "PlayerDoesNotHaveCard", player |-> idx, card |-> c]
MustProvideTarget(c) == [error |-> "MustProvideTarget", card |-> c]
CannotTargetSelf(c) == [error |-> "CannotTargetSelf", card |-> c]
CannotTargetProtectedPlayer == [error |-> "CannotTargetProtectedPlayer"]
CannotTargetEliminatedPlayer == [error |-> "CannotTargetEliminatedPlayer"]
CannotPlayWhileHoldingCountess(c) == [error |-> "CannotPlayWhileHoldingCountess", card |-> c]

(***************************************************************************)
(* game.rs: Game                                                           *)
(***************************************************************************)
\* Game::new
Game_new == [deck |-> Deck_new, burned_card |-> None, players |-> <<>>,
             turn_counter |-> 0, state |-> NotStarted]

\* self.players.len()
players_len(g) == Cardinality(DOMAIN g.players)

push(g, e) == [g EXCEPT !.events = Append(@, e)]

\* Game::draw_and_give_card_to_player without the burned card as a reserve
draw_and_give_card_to_player_deck_only(g, idx) ==
    LET popped == Deck_pop(g.deck)
        drawn == popped.card
        c == unwrap(drawn)
    IN [g EXCEPT !.deck = popped.cards,
                 !.players[idx] = give_card(@, c),
                 !.events = Append(@, DealCard(idx, c)),
                 !.panic = @ \/ panicked(drawn)]

\* Game::draw_and_give_card_to_player.  `.or(self.burned_card)` copies the
\* Option (Card is Copy) and `.take()` empties that copy: the field
\* self.burned_card is read, never written.
draw_and_give_card_to_player(g, idx) ==
    LET popped == Deck_pop(g.deck)
        drawn == or(popped.card, g.burned_card)
        c == unwrap(drawn)
    IN [g EXCEPT !.deck = popped.cards,
                 !.players[idx] = give_card(@, c),
                 !.events = Append(@, DealCard(idx, c)),
                 !.panic = @ \/ panicked(drawn)]

\* Game::start_player_turn
start_player_turn(g, idx) ==
    [g EXCEPT !.turn_counter = idx,
              !.players[idx] = make_unprotected(@),
              !.events = Append(@, ReadyToPlay(idx))]

\* Game::discard_hand
discard_hand(g, target) ==
    LET taken == take_card(g.players[target]) IN
    [g EXCEPT !.players[target] = taken.pl,
              !.events = Append(@, DiscardCard(target, unwrap(taken.card))),
              !.panic = @ \/ panicked(taken.card)]

\* Game::eliminate_player
eliminate_player(g, idx) ==
    [g EXCEPT !.players[idx] = eliminate(@),
              !.events = Append(@, EliminatePlayer(idx))]

\* Game::end_game_with_winners leaving the phase as it is
end_game_with_winners_phase_kept(g, winner_indices) ==
    [g EXCEPT !.events = Append(@, GameOver(winner_indices))]

\* Game::end_game_with_winners
end_game_with_winners(g, winner_indices) ==
    [g EXCEPT !.state = Complete,
              !.events = Append(@, GameOver(winner_indices))]

\* Game::reveal_eliminated_player_card
reveal_eliminated_player_card(g, idx) ==
    LET taken == take_card(g.players[idx]) IN
    [g EXCEPT !.players[idx] = taken.pl,
              !.events = Append(@, RevealCard(idx, unwrap(taken.card))),
              !.panic = @ \/ panicked(taken.card)]

\* Game::unprotected_targets
unprotected_targets(g, idx, include_self) ==
    LET unprotected_players ==
            SelectSeq(Indices(players_len(g)),
                      LAMBDA i : g.players[i].active /\ ~g.players[i].protected)
    IN IF include_self THEN unprotected_players
       ELSE SelectSeq(unprotected_players, LAMBDA i : i # idx)

\* Game::active_players counting the eliminated seats too
active_players_every_seat(g) == Indices(players_len(g))

\* Game::active_players
active_players(g) ==
    SelectSeq(Indices(players_len(g)), LAMBDA i : g.players[i].active)

\* Game::play_guard eliminating on a guess of the target's rank or higher
play_guard_at_least(g, target, guess) ==
    LET g1 == push(g, Guess(target, guess)) IN
    IF \E k \in DOMAIN g1.players[target].hand : g1.players[target].hand[k] <= guess
    THEN reveal_eliminated_player_card(eliminate_player(g1, target), target)
    ELSE g1

\* Game::play_guard
play_guard(g, target, guess) ==
    LET g1 == push(g, Guess(target, guess)) IN
    IF is_holding_card(g1.players[target], guess)
    THEN reveal_eliminated_player_card(eliminate_player(g1, target), target)
    ELSE g1

\* Game::play_priest
play_priest(g, idx, target) ==
    LET c == card(g.players[target]) IN
    [g EXCEPT !.events = Append(@, ShowCard(idx, target, unwrap(c))),
              !.panic = @ \/ panicked(c)]

\* the losing player of a Baron with the target losing a draw
baron_loser_on_draw(idx, player_card, target, target_card) ==
    IF player_card < target_card THEN Some(idx)
    ELSE IF target_card <= player_card THEN Some(target)
    ELSE None

\* The `if let Some(losing_player_idx) = ...` of Game::play_baron
baron_loser(idx, player_card, target, target_card) ==
    IF player_card < target_card THEN Some(idx)
    ELSE IF target_card < player_card THEN Some(target)
    ELSE None

\* Game::play_baron
play_baron(g, idx, target) ==
    LET player_card == card(g.players[idx])
        target_card == card(g.players[target])
        g1 == [g EXCEPT !.events = Append(@, CompareHands(idx, unwrap(player_card),
                                                          target, unwrap(target_card))),
                        !.panic = @ \/ panicked(player_card) \/ panicked(target_card)]
        losing_player_idx == baron_loser(idx, unwrap(player_card), target, unwrap(target_card))
    IN IF losing_player_idx # None
       THEN reveal_eliminated_player_card(eliminate_player(g1, losing_player_idx[1]),
                                          losing_player_idx[1])
       ELSE g1

\* Game::play_handmaid
play_handmaid(g, idx) == [g EXCEPT !.players[idx] = make_protected(@)]

\* Game::play_prince dealing a new card whatever was discarded
play_prince_always_redeals(g, target) ==
    LET c == card(g.players[target])
        g1 == [discard_hand(g, target) EXCEPT !.panic = @ \/ panicked(c)]
    IN draw_and_give_card_to_player(g1, target)

\* Game::play_prince
play_prince(g, target) ==
    LET c == card(g.players[target])
        g1 == [discard_hand(g, target) EXCEPT !.panic = @ \/ panicked(c)]
    IN IF unwrap(c) = Princess
       THEN eliminate_player(g1, target)
       ELSE draw_and_give_card_to_player(g1, target)

\* Game::play_king handing each player their own card back
play_king_hands_kept(g, idx, target) ==
    LET player_taken == take_card(g.players[idx])
        g1 == [g EXCEPT !.players[idx] = player_taken.pl]
        target_taken == take_card(g1.players[target])
        g2 == [g1 EXCEPT !.players[target] = target_taken.pl]
        player_card == unwrap(player_taken.card)
        target_card == unwrap(target_taken.card)
    IN [g2 EXCEPT !.players[idx] = give_card(@, player_card),
                  !.players[target] = give_card(@, target_card),
                  !.events = Append(@, SwapHands(idx, player_card, target, target_card)),
                  !.panic = @ \/ panicked(player_taken.card) \/ panicked(target_taken.card)]

\* Game::play_king
play_king(g, idx, target) ==
    LET player_taken == take_card(g.players[idx])
        g1 == [g EXCEPT !.players[idx] = player_taken.pl]
        target_taken == take_card(g1.players[target])
        g2 == [g1 EXCEPT !.players[target] = target_taken.pl]
        player_card == unwrap(player_taken.card)
        target_card == unwrap(target_taken.card)
    IN [g2 EXCEPT !.players[idx] = give_card(@, target_card),
                  !.players[target] = give_card(@, player_card),
                  !.events = Append(@, SwapHands(idx, player_card, target, target_card)),
                  !.panic = @ \/ panicked(player_taken.card) \/ panicked(target_taken.card)]

\* Game::play_countess
play_countess(g) == g

\* Game::play_princess
play_princess(g, idx) == eliminate_player(g, idx)

\* The checks return Option<GameError>: None is Ok(()).

\* Game::is_game_in_progress letting a finished game through
is_game_in_progress_not_started_only(g) ==
    IF g.state = NotStarted THEN Some(GameNotInProgress) ELSE None

\* Game::is_game_in_progress
is_game_in_progress(g) ==
    IF g.state \in {NotStarted, Complete} THEN Some(GameNotInProgress) ELSE None

\* Game::is_it_players_turn letting every seat play
is_it_players_turn_any_seat(g, idx) == None

\* Game::is_it_players_turn
is_it_players_turn(g, idx) ==
    IF g.turn_counter = idx THEN None ELSE Some(PlayedOutOfTurn(idx))

\* Game::does_player_exist
does_player_exist(g, idx) ==
    IF idx >= players_len(g) THEN Some(PlayerDoesNotExist(idx)) ELSE None

\* Game::is_player_allowed_to_play_card looking at the first card in hand only
is_player_allowed_first_card_only(g, idx, c) ==
    IF (c = Prince \/ c = King) /\ g.players[idx].hand # <<>>
                                /\ g.players[idx].hand[1] = Countess
    THEN Some(CannotPlayWhileHoldingCountess(c))
    ELSE None

\* Game::is_player_allowed_to_play_card
is_player_allowed_to_play_card(g, idx, c) ==
    IF (c = Prince \/ c = King) /\ is_holding_card(g.players[idx], Countess)
    THEN Some(CannotPlayWhileHoldingCountess(c))
    ELSE None

\* Game::is_target_valid without the check of a target equal to the player
is_target_valid_self_allowed(g, idx, target, c) ==
    IF has_target(c) /\ unprotected_targets(g, idx, c = Prince) # <<>> /\ is_none(target)
        THEN Some(MustProvideTarget(c))
    ELSE IF target # None /\ target[1] >= players_len(g)
        THEN Some(PlayerDoesNotExist(target[1]))
    ELSE IF target # None /\ g.players[target[1]].protected
        THEN Some(CannotTargetProtectedPlayer)
    ELSE IF target # None /\ ~g.players[target[1]].active
        THEN Some(CannotTargetEliminatedPlayer)
    ELSE None

\* Game::is_target_valid without the check of the target's protection
is_target_valid_protected_allowed(g, idx, target, c) ==
    IF has_target(c) /\ unprotected_targets(g, idx, c = Prince) # <<>> /\ is_none(target)
        THEN Some(MustProvideTarget(c))
    ELSE IF c # Prince /\ target = Some(idx)
        THEN Some(CannotTargetSelf(c))
    ELSE IF target # None /\ target[1] >= players_len(g)
        THEN Some(PlayerDoesNotExist(target[1]))
    ELSE IF target # None /\ ~g.players[target[1]].active
        THEN Some(CannotTargetEliminatedPlayer)
    ELSE None

\* Game::is_target_valid without the check of the target being active
is_target_valid_eliminated_allowed(g, idx, target, c) ==
    IF has_target(c) /\ unprotected_targets(g, idx, c = Prince) # <<>> /\ is_none(target)
        THEN Some(MustProvideTarget(c))
    ELSE IF c # Prince /\ target = Some(idx)
        THEN Some(CannotTargetSelf(c))
    ELSE IF target # None /\ target[1] >= players_len(g)
        THEN Some(PlayerDoesNotExist(target[1]))
    ELSE IF target # None /\ g.players[target[1]].protected
        THEN Some(CannotTargetProtectedPlayer)
    ELSE None

\* Game::is_target_valid
is_target_valid(g, idx, target, c) ==
    IF has_target(c) /\ unprotected_targets(g, idx, c = Prince) # <<>> /\ is_none(target)
        THEN Some(MustProvideTarget(c))
    ELSE IF c # Prince /\ target = Some(idx)
        THEN Some(CannotTargetSelf(c))
    ELSE IF target # None /\ target[1] >= players_len(g)
        THEN Some(PlayerDoesNotExist(target[1]))
    ELSE IF target # None /\ g.players[target[1]].protected
        THEN Some(CannotTargetProtectedPlayer)
    ELSE IF target # None /\ ~g.players[target[1]].active
        THEN Some(CannotTargetEliminatedPlayer)
    ELSE None

\* Game::play_card_from_player_hand -> [err: Option<GameError>, g]
play_card_from_player_hand(g, idx, c) ==
    LET played == Player_play_card(g.players[idx], c)
        g1 == [g EXCEPT !.players[idx] = played.pl]
    IN IF played.ok
       THEN [err |-> None, g |-> push(g1, PlayCardEvent(idx, c))]
       ELSE [err |-> Some(PlayerDoesNotHaveCard(idx, c)), g |-> g1]

\* The `match details` of Game::play_card: every arm returns Ok
card_effect(g, idx, d) ==
    CASE d.details = "PlayGuard" /\ d.target_idx # None -> play_guard(g, d.target_idx[1], d.guess)
      [] d.details = "PlayPriest" /\ d.target_idx # None -> play_priest(g, idx, d.target_idx[1])
      [] d.details = "PlayBaron" /\ d.target_idx # None -> play_baron(g, idx, d.target_idx[1])
      [] d.details = "PlayHandmaid" -> play_handmaid(g, idx)
      [] d.details = "PlayPrince" -> play_prince(g, d.target)
      [] d.details = "PlayKing" /\ d.target_idx # None -> play_king(g, idx, d.target_idx[1])
      [] d.details = "PlayCountess" -> play_countess(g)
      [] d.details = "PlayPrincess" -> play_princess(g, idx)
      [] OTHER -> g

\* Game::play_card up to the end of the card's effect -> [err, g].  An early
\* return by `?` leaves self as it is at that point.
play_card_effect(g, idx, d) ==
    LET e1 == is_game_in_progress(g) IN
    IF e1 # None THEN [err |-> e1, g |-> g] ELSE
    LET e2 == does_player_exist(g, idx) IN
    IF e2 # None THEN [err |-> e2, g |-> g] ELSE
    LET e3 == is_it_players_turn(g, idx) IN
    IF e3 # None THEN [err |-> e3, g |-> g] ELSE
    LET e4 == is_target_valid(g, idx, details_target(d), details_card(d)) IN
    IF e4 # None THEN [err |-> e4, g |-> g] ELSE
    LET e5 == is_player_allowed_to_play_card(g, idx, details_card(d)) IN
    IF e5 # None THEN [err |-> e5, g |-> g] ELSE
    LET played == play_card_from_player_hand(g, idx, details_card(d)) IN
    IF played.err # None THEN played ELSE
    [err |-> None, g |-> card_effect(played.g, idx, d)]

\* The derived Ord of the tuples (Card, u32, usize) of calculate_winners
score_le(a, b) ==
    \/ a[1] < b[1]
    \/ a[1] = b[1] /\ a[2] < b[2]
    \/ a[1] = b[1] /\ a[2] = b[2] /\ a[3] <= b[3]

\* scores.sort(): ascending
RECURSIVE sort(_)
sort(S) ==
    IF S = {} THEN <<>>
    ELSE LET least == CHOOSE x \in S : \A y \in S : score_le(x, y)
         IN <<least>> \o sort(S \ {least})

\* `let high_score = scores[0]` of calculate_winners, on the sorted scores
high_score(scores) == scores[1]

\* Game::calculate_winners -> [winners, panic]
calculate_winners(g) ==
    LET active == active_players(g)
        scores == sort({<<unwrap(card(g.players[i])), value_of_discards(g.players[i]), i>> :
                          i \in Range(active)})
        high == high_score(scores)
        kept == SelectSeq(scores, LAMBDA s : s[1] = high[1] /\ s[2] = high[2])
    IN [winners |-> [k \in DOMAIN kept |-> kept[k][3]],
        panic |-> \E i \in Range(active) : panicked(card(g.players[i]))]

\* `(self.turn_counter + 1) % self.players.len()`, both places of next_player
next_candidate(g) == (g.turn_counter + 1) % players_len(g)

\* Game::start_game -> [err, g]; `shuffled` is what Deck::shuffle left in the deck
RECURSIVE register_players(_, _, _)
register_players(g, idx, n) ==
    IF idx >= n THEN g
    ELSE register_players(
             [g EXCEPT !.players = [i \in 0..idx |-> IF i = idx THEN Player_new ELSE g.players[i]],
                       !.events = Append(@, RegisterPlayer(idx))],
             idx + 1, n)

\* the loop `for _ in 0..3` of start_game stopping one short
RECURSIVE remove_cards_one_short(_, _)
remove_cards_one_short(g, k) ==
    IF k <= 1 THEN g
    ELSE LET popped == Deck_pop(g.deck) IN
         remove_cards_one_short(
             [g EXCEPT !.deck = popped.cards,
                       !.events = Append(@, RemoveCardFromGame(unwrap(popped.card))),
                       !.panic = @ \/ panicked(popped.card)],
             k - 1)

\* the loop `for _ in 0..3` of start_game
RECURSIVE remove_cards(_, _)
remove_cards(g, k) ==
    IF k = 0 THEN g
    ELSE LET popped == Deck_pop(g.deck) IN
         remove_cards([g EXCEPT !.deck = popped.cards,
                                !.events = Append(@, RemoveCardFromGame(unwrap(popped.card))),
                                !.panic = @ \/ panicked(popped.card)],
                      k - 1)

RECURSIVE deal_to_each(_, _, _)
deal_to_each(g, idx, n) ==
    IF idx >= n THEN g
    ELSE deal_to_each(draw_and_give_card_to_player(g, idx), idx + 1, n)

\* Game::start_game refusing to restart a game that is not over
start_game_not_while_running(g, n, shuffled) ==
    IF n < 2 \/ n > 4 \/ g.state = InProgress
        THEN [err |-> Some(InvalidNumberOfPlayers(n)), g |-> g] ELSE
    LET g1 == [g EXCEPT !.events = <<NewGame(n)>>, !.deck = shuffled]
        g2 == register_players([g1 EXCEPT !.players = <<>>], 0, n)
        burned == Deck_pop(g2.deck)
        g3 == [g2 EXCEPT !.burned_card = burned.card, !.deck = burned.cards,
                         !.events = Append(@, BurnCard)]
        g4 == IF n = 2 THEN remove_cards(g3, 3) ELSE g3
        g5 == deal_to_each(g4, 0, n)
        g6 == start_player_turn(draw_and_give_card_to_player(g5, 0), 0)
    IN [err |-> None, g |-> [g6 EXCEPT !.state = InProgress]]

\* Game::start_game keeping a burned card that is already set aside
start_game_burned_card_kept(g, n, shuffled) ==
    IF n < 2 \/ n > 4 THEN [err |-> Some(InvalidNumberOfPlayers(n)), g |-> g] ELSE
    LET g1 == [g EXCEPT !.events = <<NewGame(n)>>, !.deck = shuffled]
        g2 == register_players([g1 EXCEPT !.players = <<>>], 0, n)
        burned == Deck_pop(g2.deck)
        g3 == IF g.burned_card # None
              THEN [g2 EXCEPT !.events = Append(@, BurnCard)]
              ELSE [g2 EXCEPT !.burned_card = burned.card, !.deck = burned.cards,
                              !.events = Append(@, BurnCard)]
        g4 == IF n = 2 THEN remove_cards(g3, 3) ELSE g3
        g5 == deal_to_each(g4, 0, n)
        g6 == start_player_turn(draw_and_give_card_to_player(g5, 0), 0)
    IN [err |-> None, g |-> [g6 EXCEPT !.state = InProgress]]

start_game(g, n, shuffled) ==
    IF n < 2 \/ n > 4 THEN [err |-> Some(InvalidNumberOfPlayers(n)), g |-> g] ELSE
    LET g1 == [g EXCEPT !.events = <<NewGame(n)>>, !.deck = shuffled]
        g2 == register_players([g1 EXCEPT !.players = <<>>], 0, n)
        burned == Deck_pop(g2.deck)
        g3 == [g2 EXCEPT !.burned_card = burned.card, !.deck = burned.cards,
                         !.events = Append(@, BurnCard)]
        g4 == IF n = 2 THEN remove_cards(g3, 3) ELSE g3
        g5 == deal_to_each(g4, 0, n)
        g6 == start_player_turn(draw_and_give_card_to_player(g5, 0), 0)
    IN [err |-> None, g |-> [g6 EXCEPT !.state = InProgress]]

(***************************************************************************)
(* The engine as a state machine                                           *)
(***************************************************************************)
\* The outcomes of Deck::shuffle the model follows, each written in the
\* order the cards are drawn (Vec::pop draws from the back).
Reverse(seq) == [i \in DOMAIN seq |-> seq[Len(seq) + 1 - i]]

DrawOrders(n) ==
    CASE n = 2 ->
         { <<Guard, Priest, Baron, Handmaid, King, Guard, Prince, Countess,
             Guard, Princess, Handmaid, Guard, Baron, Prince, Priest, Guard>>,
           <<Handmaid, Guard, Guard, Priest, Countess, King, Prince, Guard,
             Baron, Princess, Guard, Handmaid, Baron, Prince, Priest, Guard>>,
           <<Guard, Baron, Handmaid, Priest, Prince, Guard, Countess, King,
             Guard, Princess, Guard, Handmaid, Baron, Prince, Priest, Guard>>,
           <<Guard, Priest, Baron, Handmaid, King, Princess, Countess, Guard,
             Prince, Guard, Handmaid, Guard, Baron, Prince, Priest, Guard>>,
           <<Priest, Guard, Prince, Handmaid, Countess, Baron, King, Guard,
             Guard, Handmaid, Baron, Guard, Princess, Prince, Priest, Guard>>,
           <<Princess, King, Countess, Prince, Baron, Guard, Guard, Baron,
             Priest, Priest, Guard, Handmaid, Guard, Handmaid, Prince, Guard>>,
           <<King, Princess, Countess, Prince, Handmaid, Guard, Guard, Priest,
             Handmaid, Baron, Guard, Baron, Guard, Prince, Priest, Guard>> }
      [] n = 3 ->
         { <<Guard, Priest, Baron, Handmaid, King, Guard, Prince, Countess,
             Guard, Princess, Handmaid, Guard, Baron, Prince, Priest, Guard>>,
           <<King, Handmaid, Handmaid, Guard, Guard, Priest, Baron, Guard,
             Prince, Guard, Countess, Princess, Guard, Baron, Prince, Priest>> }
      [] n = 4 ->
         { <<Prince, Guard, Guard, Guard, Priest, Guard, Priest, Guard,
             Baron, Handmaid, Baron, Handmaid, Prince, King, Countess, Princess>> }
      [] OTHER -> {Deck_new}

Shuffles(n) == {Reverse(d) : d \in DrawOrders(n)}

Targets == {None} \cup {Some(t) : t \in 0..MaxIndex}

Details ==
    {PlayGuard(t, c) : t \in Targets, c \in Card}
    \cup {PlayPriest(t) : t \in Targets}
    \cup {PlayBaron(t) : t \in Targets}
    \cup {PlayHandmaid}
    \cup {PlayPrince(t) : t \in 0..MaxIndex}
    \cup {PlayKing(t) : t \in Targets}
    \cup {PlayCountess, PlayPrincess}

\* `self` at the start of a handler
Self == [deck |-> deck, burned_card |-> burned_card, players |-> players,
         turn_counter |-> turn_counter, state |-> state,
         events |-> <<>>, panic |-> FALSE]

\* `self` inside next_player and after it
Running == [Self EXCEPT !.events = events]

SetGame(g) ==
    /\ deck' = g.deck
    /\ burned_card' = g.burned_card
    /\ players' = g.players
    /\ turn_counter' = g.turn_counter
    /\ state' = g.state

NoAction == [type |-> "None"]
NoResult == [kind |-> "None"]
Ok(evs) == [kind |-> "Ok", events |-> evs]
Err(e) == [kind |-> "Err", error |-> e]
Pending == [kind |-> "Pending"]

Return(res) ==
    /\ result' = res
    /\ pc' = "returned"
    /\ events' = <<>>
    /\ player_idx' = 0
    /\ spins' = 0

Panic ==
    /\ result' = Pending
    /\ pc' = "panicked"
    /\ events' = <<>>
    /\ player_idx' = 0
    /\ spins' = 0

Init ==
    /\ deck = Game_new.deck
    /\ burned_card = Game_new.burned_card
    /\ players = Game_new.players
    /\ turn_counter = Game_new.turn_counter
    /\ state = Game_new.state
    /\ pc = "idle"
    /\ events = <<>>
    /\ player_idx = 0
    /\ spins = 0
    /\ action = NoAction
    /\ result = NoResult
    /\ removed = <<>>

\* perform_action(StartGame { players: n })
StartGame ==
    /\ pc = "idle"
    /\ \E n \in 1..MaxCount : \E shuffled \in Shuffles(n) :
         LET r == start_game(Self, n, shuffled) IN
         /\ action' = [type |-> "StartGame", players |-> n]
         /\ SetGame(r.g)
         /\ IF r.err # None
            THEN Return(Err(r.err[1])) /\ UNCHANGED removed
            ELSE /\ removed' = [k \in 1..Len(SelectSeq(r.g.events,
                                       LAMBDA e : e.type = "RemoveCardFromGame")) |->
                                  SelectSeq(r.g.events,
                                       LAMBDA e : e.type = "RemoveCardFromGame")[k].card]
                 /\ IF r.g.panic THEN Panic ELSE Return(Ok(r.g.events))

\* perform_action(PlayCard { player_idx: idx, details: d }), up to the entry
\* of next_player's loop when the game goes on
PlayCard ==
    /\ pc = "idle"
    /\ \E idx \in 0..MaxIndex, d \in Details :
         LET r == play_card_effect(Self, idx, d)
             active == active_players(r.g)
             tally == calculate_winners(r.g)
         IN
         /\ action' = [type |-> "PlayCard", player_idx |-> idx, details |-> d]
         /\ UNCHANGED removed
         /\ IF r.err # None
                THEN SetGame(r.g) /\ Return(Err(r.err[1]))
            ELSE IF r.g.panic
                THEN SetGame(r.g) /\ Panic
            ELSE IF Len(active) = 1
                THEN LET g1 == end_game_with_winners(r.g, active) IN
                     SetGame(g1) /\ Return(Ok(g1.events))
            ELSE IF Deck_is_empty(r.g.deck)
                THEN LET g1 == end_game_with_winners(r.g, tally.winners) IN
                     SetGame(g1) /\ (IF tally.panic THEN Panic ELSE Return(Ok(g1.events)))
            ELSE /\ SetGame(r.g)
                 /\ result' = Pending
                 /\ pc' = "next_player"
                 /\ events' = r.g.events
                 /\ player_idx' = next_candidate(r.g)
                 /\ spins' = 0

\* One iteration of `while !self.players[player_idx].active()` in next_player
NextPlayerLoop ==
    /\ pc = "next_player"
    /\ ~players[player_idx].active
    /\ spins < MaxSpin
    /\ player_idx' = next_candidate(Running)
    /\ spins' = spins + 1
    /\ UNCHANGED <<deck, burned_card, players, turn_counter, state, pc, events,
                   action, result, removed>>

\* The exit of next_player's loop and the rest of play_card
NextPlayerExit ==
    /\ pc = "next_player"
    /\ players[player_idx].active
    /\ LET g1 == draw_and_give_card_to_player(Running, player_idx)
           g2 == start_player_turn(g1, player_idx)
       IN /\ SetGame(g2)
          /\ IF g2.panic THEN Panic ELSE Return(Ok(g2.events))
    /\ UNCHANGED <<action, removed>>

\* The caller takes the Result of perform_action; the engine is idle again
TakeResult ==
    /\ pc = "returned"
    /\ pc' = "idle"
    /\ action' = NoAction
    /\ result' = NoResult
    /\ UNCHANGED <<deck, burned_card, players, turn_counter, state, events,
                   player_idx, spins, removed>>

Next == StartGame \/ PlayCard \/ NextPlayerLoop \/ NextPlayerExit \/ TakeResult

Spec == Init /\ [][Next]_vars

(***************************************************************************)
(* Vocabulary of the properties                                            *)
(***************************************************************************)
NumPlayers == Cardinality(DOMAIN players)
Seats == DOMAIN players
ActiveSeats == {i \in Seats : players[i].active}

CountIn(seq, c) == Cardinality({i \in DOMAIN seq : seq[i] = c})

RECURSIVE CountOverSeats(_, _)
CountOverSeats(S, c) ==
    IF S = {} THEN 0
    ELSE LET i == CHOOSE x \in S : TRUE
         IN CountIn(players[i].hand, c) + CountIn(players[i].discards, c)
            + CountOverSeats(S \ {i}, c)

\* copies of card c in the deck, the burned card, the hands and the discard piles
CardsHeld(c) == CountIn(deck, c) + CountIn(burned_card, c) + CountOverSeats(Seats, c)

\* perform_action has returned Ok for a StartGame / a PlayCard
StartedOk == pc = "returned" /\ result.kind = "Ok" /\ action.type = "StartGame"
PlayedOk == pc = "returned" /\ result.kind = "Ok" /\ action.type = "PlayCard"
Rejected == pc = "returned" /\ result.kind = "Err"

\* every shuffle the model follows is a permutation of Deck::new()
ShufflesArePermutations ==
    \A n \in 1..MaxCount : \A d \in Shuffles(n) :
        Len(d) = Len(Deck_new) /\ \A c \in Card : CountIn(d, c) = CountIn(Deck_new, c)

(***************************************************************************)
(* C1  Deck conservation.  While a game is InProgress, the deck, the       *)
(* burned card, the hands and the discard piles together hold exactly the  *)
(* 16 cards of Deck::new().  Stated here for the games whose set-up        *)
(* removes no card from the game (3 and 4 players), which the claim names  *)
(* beside the 2-player game.                                               *)
(***************************************************************************)
C1_DeckConservation ==
    (state = InProgress /\ NumPlayers >= 3 /\ pc \in {"idle", "returned"})
        => \A c \in Card : CardsHeld(c) = CountIn(Deck_new, c)

\* the same for the 2-player game, whose set-up removes three cards
C1_DeckConservationTwoPlayers ==
    (state = InProgress /\ NumPlayers = 2 /\ pc \in {"idle", "returned"})
        => \A c \in Card : CardsHeld(c) = CountIn(Deck_new, c)

(***************************************************************************)
(* C2  A rejected action leaves the game unchanged: whenever               *)
(* perform_action returns an error, deck, burned card, players (hands,     *)
(* discards, protected, active), turn_counter and phase are what they were *)
(* before the call.                                                        *)
(***************************************************************************)
C2_RejectedLeavesStateUnchanged ==
    [][(pc = "idle" /\ result'.kind = "Err")
           => UNCHANGED <<deck, burned_card, players, turn_counter, state>>]_vars

\* a PlayCard rejected by the last check of play_card, in a running game
C2_Witness ==
    /\ Rejected
    /\ state = InProgress
    /\ action.type = "PlayCard"
    /\ result.error.error = "PlayerDoesNotHaveCard"

(***************************************************************************)
(* C3  End-of-deck tie-break.  When an accepted PlayCard ends the game     *)
(* with the deck empty and at least 2 active players, GameOver names       *)
(* exactly the active players whose key (rank of the held card, then sum   *)
(* of the ranks of their discards) is maximal among the active players.    *)
(***************************************************************************)
Key(i) == <<unwrap(card(players[i])), value_of_discards(players[i])>>
KeyLe(a, b) == a[1] < b[1] \/ (a[1] = b[1] /\ a[2] <= b[2])
BestSeats == {i \in ActiveSeats : \A j \in ActiveSeats : KeyLe(Key(j), Key(i))}
LastEvent == result.events[Len(result.events)]

C3_TieBreakWinners ==
    (PlayedOk /\ state = Complete /\ deck = <<>> /\ Cardinality(ActiveSeats) >= 2)
        => /\ LastEvent.type = "GameOver"
           /\ Range(LastEvent.winner_indices) = BestSeats

(***************************************************************************)
(* C4  Every accepted PlayCard is resolved to completion: the search for   *)
(* the next active seat ends whenever an active player remains.  A search  *)
(* over n seats that ends has made fewer than n turns of its loop.         *)
(***************************************************************************)
C4_NextPlayerTerminates ==
    (pc = "next_player" /\ ActiveSeats # {}) => spins < NumPlayers

(***************************************************************************)
(* C5  Turn order.  After an accepted PlayCard that does not end the game  *)
(* the turn passes to the first active seat clockwise after the acting     *)
(* seat, skipping eliminated seats: the search that has skipped k seats    *)
(* looks at seat turn_counter + 1 + k (wrapping around), and the seat it   *)
(* settles on is dealt one card and told ReadyToPlay.                      *)
(***************************************************************************)
C5_SearchSkipsEliminatedSeats ==
    (pc = "next_player") => player_idx = (turn_counter + 1 + spins) % NumPlayers

\* what the engine does guarantee: it never hands the turn to an eliminated seat
C5_TurnHolderIsActive ==
    (PlayedOk /\ state = InProgress)
        => /\ players[turn_counter].active
           /\ Len(result.events) >= 2
           /\ result.events[Len(result.events) - 1].type = "DealCard"
           /\ result.events[Len(result.events) - 1].player_idx = turn_counter
           /\ LastEvent = ReadyToPlay(turn_counter)

(***************************************************************************)
(* C6  StartGame with 2 players returns NewGame, RegisterPlayer for seats  *)
(* 0 and 1, BurnCard, 3 RemoveCardFromGame, DealCard to seats 0 and 1, a   *)
(* further DealCard to seat 0 and ReadyToPlay for seat 0, in this order,   *)
(* and leaves the phase InProgress.  As claimed: 13 events in total.  As   *)
(* amended: 11 events in total.                                            *)
(***************************************************************************)
EventTypes(evs) == [k \in DOMAIN evs |-> evs[k].type]

StartGame2Sequence ==
    /\ EventTypes(result.events) =
         <<"NewGame", "RegisterPlayer", "RegisterPlayer", "BurnCard",
           "RemoveCardFromGame", "RemoveCardFromGame", "RemoveCardFromGame",
           "DealCard", "DealCard", "DealCard", "ReadyToPlay">>
    /\ result.events[1] = NewGame(2)
    /\ result.events[2] = RegisterPlayer(0)
    /\ result.events[3] = RegisterPlayer(1)
    /\ result.events[8].player_idx = 0
    /\ result.events[9].player_idx = 1
    /\ result.events[10].player_idx = 0
    /\ result.events[11] = ReadyToPlay(0)
    /\ state = InProgress

C6_StartGame2Events ==
    (StartedOk /\ action.players = 2) => StartGame2Sequence

C6_StartGame2ThirteenEvents ==
    (StartedOk /\ action.players = 2)
        => (StartGame2Sequence /\ Len(result.events) = 13)

\* StartGame { players: 2 } has returned its events
C6_Witness ==
    /\ StartedOk
    /\ action.players = 2
    /\ Len(result.events) = 11
    /\ Len(removed) = 3

(***************************************************************************)
(* Steps of perform_action, for the properties of one call                 *)
(***************************************************************************)
\* a call of PlayCard that is not rejected (and does not panic)
AcceptedPlay ==
    pc = "idle" /\ action'.type = "PlayCard" /\ result'.kind # "Err" /\ pc' # "panicked"
\* a call of PlayCard, accepted or not
AnyPlay == pc = "idle" /\ action'.type = "PlayCard"
\* the events of the call so far: PlayCard first, then the card's effect
StepEvents == IF pc' = "next_player" THEN events' ELSE result'.events
EffectEnds(k) == Len(StepEvents) = k \/ (Len(StepEvents) = k + 1 /\ StepEvents[k + 1].type = "GameOver")
GameFields == <<deck, burned_card, players, turn_counter, state>>

(***************************************************************************)
(* C7  Guard correctness.  For every accepted Guard play with a target and *)
(* every guessed card, the target is eliminated (Guess, EliminatePlayer,   *)
(* RevealCard) if and only if the guess is the single card the target      *)
(* holds; otherwise the effect changes no hand and no active flag.  A      *)
(* Guard naming its own player is rejected.                                *)
(***************************************************************************)
GuardStep ==
    LET a == action'.player_idx
        t == action'.details.target_idx[1]
        guess == action'.details.guess
        hit == players[t].hand = <<guess>>
    IN /\ t # a
       /\ StepEvents[1] = PlayCardEvent(a, Guard)
       /\ StepEvents[2] = Guess(t, guess)
       /\ hit <=> ~players'[t].active
       /\ \A i \in Seats \ {t} : players'[i].active = players[i].active
       /\ hit => /\ StepEvents[3] = EliminatePlayer(t)
                 /\ StepEvents[4] = RevealCard(t, guess)
                 /\ EffectEnds(4)
       /\ ~hit => /\ EffectEnds(2)
                  /\ \A i \in Seats \ {a} : players'[i] = players[i]
                  /\ Len(players'[a].hand) = Len(players[a].hand) - 1
                  /\ CountIn(players'[a].hand, Guard) = CountIn(players[a].hand, Guard) - 1

C7_GuardCorrectness ==
    [][/\ (AcceptedPlay /\ action'.details.details = "PlayGuard"
                        /\ action'.details.target_idx # None) => GuardStep
       /\ (AnyPlay /\ action'.details.details = "PlayGuard"
                   /\ action'.details.target_idx = Some(action'.player_idx))
              => result'.kind = "Err"]_vars

\* a Guard whose guess was right has been resolved
C7_Witness ==
    /\ PlayedOk
    /\ action.details.details = "PlayGuard"
    /\ \E k \in DOMAIN result.events : result.events[k].type = "RevealCard"

(***************************************************************************)
(* C8  Baron correctness.  For every accepted Baron play with a target the *)
(* acting player's remaining card is compared by rank with the target's    *)
(* card; the holder of the strictly lower rank is eliminated and revealed, *)
(* with equal ranks neither is; at most one player is eliminated.          *)
(***************************************************************************)
\* the hand without one copy of card c
Without(hand, c) ==
    LET k == CHOOSE i \in DOMAIN hand : hand[i] = c
    IN SubSeq(hand, 1, k - 1) \o SubSeq(hand, k + 1, Len(hand))

BaronStep ==
    LET a == action'.player_idx
        t == action'.details.target_idx[1]
        mine == Without(players[a].hand, Baron)[1]
        theirs == players[t].hand[1]
        loser == IF mine < theirs THEN {a} ELSE IF theirs < mine THEN {t} ELSE {}
    IN /\ Len(players[a].hand) = 2
       /\ Len(players[t].hand) = 1
       /\ StepEvents[1] = PlayCardEvent(a, Baron)
       /\ StepEvents[2] = CompareHands(a, mine, t, theirs)
       /\ ActiveSeats' = ActiveSeats \ loser
       /\ \A l \in loser :
            /\ StepEvents[3] = EliminatePlayer(l)
            /\ StepEvents[4] = RevealCard(l, IF l = a THEN mine ELSE theirs)
            /\ EffectEnds(4)
       /\ loser = {} => EffectEnds(2)

C8_BaronCorrectness ==
    [][(AcceptedPlay /\ action'.details.details = "PlayBaron"
                     /\ action'.details.target_idx # None) => BaronStep]_vars

\* a Baron has been resolved between two hands of equal rank
C8_Witness ==
    /\ pc = "next_player"
    /\ action.details.details = "PlayBaron"
    /\ Len(events) = 2
    /\ events[2].type = "CompareHands"
    /\ events[2].player_card = events[2].target_card

(***************************************************************************)
(* C9  Countess lock.  Whenever the turn player's hand contains the        *)
(* Countess, their attempt to play Prince or King is rejected, whichever   *)
(* of the two cards was dealt first, and the state is unchanged.           *)
(***************************************************************************)
C9_CountessLock ==
    [][(/\ AnyPlay
        /\ state = InProgress
        /\ action'.player_idx = turn_counter
        /\ Countess \in Range(players[turn_counter].hand)
        /\ action'.details.details \in {"PlayPrince", "PlayKing"})
           => /\ result'.kind = "Err"
              /\ pc' = "returned"
              /\ UNCHANGED GameFields]_vars

\* a King refused to the player who was dealt the Countess after it
C9_Witness ==
    /\ Rejected
    /\ state = InProgress
    /\ result.error = CannotPlayWhileHoldingCountess(King)
    /\ players[turn_counter].hand = <<King, Countess>>

(***************************************************************************)
(* C10  PlayCard is accepted only while the phase is InProgress: in        *)
(* NotStarted and in Complete every PlayCard, whatever its player index,   *)
(* card and target, fails with GameNotInProgress, before any other check.  *)
(***************************************************************************)
C10_PlayCardNeedsGameInProgress ==
    [][(AnyPlay /\ state # InProgress)
           => /\ result' = Err(GameNotInProgress)
              /\ pc' = "returned"]_vars

\* after GameOver, a PlayCard naming a seat that does not exist
C10_Witness ==
    /\ Rejected
    /\ state = Complete
    /\ action.type = "PlayCard"
    /\ action.player_idx >= NumPlayers
    /\ result.error = GameNotInProgress

(***************************************************************************)
(* C11  Turn enforcement.  While the phase is InProgress a PlayCard from a *)
(* seat index >= the number of players fails with PlayerDoesNotExist, one  *)
(* from an existing seat other than turn_counter fails with                *)
(* PlayedOutOfTurn, whatever card and target it names, and only the seat   *)
(* equal to turn_counter can have a PlayCard accepted.                     *)
(***************************************************************************)
C11_TurnEnforcement ==
    [][(AnyPlay /\ state = InProgress)
           => /\ action'.player_idx >= NumPlayers
                    => result' = Err(PlayerDoesNotExist(action'.player_idx))
              /\ (action'.player_idx < NumPlayers /\ action'.player_idx # turn_counter)
                    => result' = Err(PlayedOutOfTurn(action'.player_idx))
              /\ result'.kind # "Err" => action'.player_idx = turn_counter]_vars

\* an existing seat played out of turn a card it holds, at a legal target
C11_Witness ==
    /\ Rejected
    /\ state = InProgress
    /\ action.type = "PlayCard"
    /\ action.player_idx < NumPlayers
    /\ result.error = PlayedOutOfTurn(action.player_idx)
    /\ action.details = PlayPriest(Some(turn_counter))
    /\ Priest \in Range(players[action.player_idx].hand)
    /\ ~players[turn_counter].protected

(***************************************************************************)
(* C12  Must-target rule.  A play of Guard, Priest, Baron or King without  *)
(* a target by the turn holder is rejected with MustProvideTarget if and   *)
(* only if another seat is active and unprotected.  When there is none,    *)
(* and the card is in hand and may be played, the play is accepted as a    *)
(* no-op: PlayCard is its only effect event, the card goes from the hand   *)
(* to the discards, nothing else about the players changes, and the turn   *)
(* goes on as after any card: the search for the next seat ends.           *)
(***************************************************************************)
NeedsTarget == {"PlayGuard", "PlayPriest", "PlayBaron", "PlayKing"}
CardOf(d) ==
    CASE d.details = "PlayGuard" -> Guard
      [] d.details = "PlayPriest" -> Priest
      [] d.details = "PlayBaron" -> Baron
      [] d.details = "PlayKing" -> King
      [] d.details = "PlayPrince" -> Prince
      [] d.details = "PlayHandmaid" -> Handmaid
      [] d.details = "PlayCountess" -> Countess
      [] OTHER -> Princess
\* the seats the turn holder may aim a card at
OtherLegalTargets == {i \in ActiveSeats \ {turn_counter} : ~players[i].protected}
\* a call of PlayCard by the turn holder, naming no target for a card that takes one
TargetlessPlay ==
    /\ AnyPlay
    /\ state = InProgress
    /\ action'.player_idx = turn_counter
    /\ action'.details.details \in NeedsTarget
    /\ action'.details.target_idx = None
\* the acting player holds the card and the Countess does not forbid it
MayPlay(a, c) ==
    /\ c \in Range(players[a].hand)
    /\ ~(c \in {Prince, King} /\ Countess \in Range(players[a].hand))

NoOpStep ==
    LET a == action'.player_idx
        c == CardOf(action'.details)
    IN /\ result'.kind # "Err"
       /\ pc' # "panicked"
       /\ StepEvents[1] = PlayCardEvent(a, c)
       /\ EffectEnds(1)
       /\ \A i \in Seats \ {a} : players'[i] = players[i]
       /\ players'[a] = [players[a] EXCEPT !.hand = Without(@, c),
                                           !.discards = Append(@, c)]
       /\ UNCHANGED <<deck, burned_card>>

\* the rule itself, up to the end of the card's effect
C12_MustProvideTargetIff ==
    [][TargetlessPlay
           => /\ (result' = Err(MustProvideTarget(CardOf(action'.details))))
                    <=> (OtherLegalTargets # {})
              /\ (OtherLegalTargets = {} /\ MayPlay(turn_counter, CardOf(action'.details)))
                    => NoOpStep]_vars

PrinceSelfStep ==
    LET a == action'.player_idx
        rest == Without(players[a].hand, Prince)[1]
    IN /\ result'.kind # "Err"
       /\ pc' # "panicked"
       /\ Len(players[a].hand) = 2
       /\ StepEvents[1] = PlayCardEvent(a, Prince)
       /\ StepEvents[2] = DiscardCard(a, rest)
       /\ SubSeq(players'[a].discards, 1, Len(players[a].discards) + 2)
              = players[a].discards \o <<Prince, rest>>
       /\ \A i \in Seats \ {a} : players'[i] = players[i]

C13_SelfTargeting ==
    [][/\ (/\ AnyPlay
           /\ action'.details.details \in NeedsTarget
           /\ action'.details.target_idx = Some(action'.player_idx))
              => /\ result'.kind = "Err"
                 /\ pc' = "returned"
                 /\ (state = InProgress /\ action'.player_idx = turn_counter)
                       => result' = Err(CannotTargetSelf(CardOf(action'.details)))
       /\ (/\ AnyPlay
           /\ state = InProgress
           /\ action'.player_idx = turn_counter
           /\ action'.details = PlayPrince(turn_counter)
           /\ MayPlay(turn_counter, Prince)) => PrinceSelfStep]_vars

\* a Prince played on its own player has been resolved and a new card dealt to them
C13_Witness ==
    /\ pc = "next_player"
    /\ action.details = PlayPrince(action.player_idx)
    /\ Len(events) = 3
    /\ events[2].type = "DiscardCard"
    /\ events[3].type = "DealCard"
    /\ events[3].player_idx = action.player_idx

(***************************************************************************)
(* C14  Handmaid protection window.  While a player is protected, every    *)
(* play of the turn holder naming them as target is rejected with          *)
(* CannotTargetProtectedPlayer and changes nothing; no step of a PlayCard  *)
(* changes a protected player's hand, discards or active flag, except the  *)
(* start of their own turn, which deals them a card and clears the flag;   *)
(* the flag is cleared by no other step, so that between actions of a      *)
(* running game the turn holder is never protected.                        *)
(***************************************************************************)
\* the seat a play names as its target, as an Option
NamedTarget(d) ==
    IF d.details = "PlayPrince" THEN Some(d.target)
    ELSE IF d.details \in NeedsTarget THEN d.target_idx
    ELSE None

\* a call of PlayCard by the turn holder of a running game naming seat t
PlayNaming(t) ==
    /\ AnyPlay
    /\ state = InProgress
    /\ action'.player_idx = turn_counter
    /\ NamedTarget(action'.details) = Some(t)

\* a call of StartGame
AnyStart == pc = "idle" /\ action'.type = "StartGame"

\* the step that starts seat p's turn
TurnStarts(p) ==
    /\ pc = "next_player"
    /\ pc' = "returned"
    /\ player_idx = p
    /\ turn_counter' = p
    /\ LastEvent' = ReadyToPlay(p)

C14_HandmaidProtection ==
    [][/\ \A p \in Seats :
            /\ (players[p].protected /\ PlayNaming(p))
                  => /\ result' = Err(CannotTargetProtectedPlayer)
                     /\ pc' = "returned"
                     /\ UNCHANGED GameFields
            /\ (players[p].protected /\ ~AnyStart)
                  => \/ players'[p] = players[p]
                     \/ /\ TurnStarts(p)
                        /\ ~players'[p].protected
                        /\ players'[p].active = players[p].active
                        /\ players'[p].discards = players[p].discards
                        /\ Len(players'[p].hand) = Len(players[p].hand) + 1
       /\ (state' = InProgress /\ pc' \in {"idle", "returned"})
              => ~players'[turn_counter'].protected]_vars

\* a play aimed at a player behind a Handmaid has been rejected
C14_Witness ==
    /\ Rejected
    /\ state = InProgress
    /\ action.type = "PlayCard"
    /\ result.error = CannotTargetProtectedPlayer
    /\ NamedTarget(action.details) # None
    /\ players[NamedTarget(action.details)[1]].protected
    /\ Handmaid \in Range(players[NamedTarget(action.details)[1]].discards)
    /\ CardOf(action.details) \in Range(players[turn_counter].hand)

(***************************************************************************)
(* C15  Elimination is permanent within a game.  Until the next StartGame  *)
(* an eliminated player stays eliminated, is dealt no card (hand, discards *)
(* and flags stay as they are), is not given the turn, and every play of   *)
(* the turn holder naming them as target is rejected with                  *)
(* CannotTargetEliminatedPlayer; the seats stay the same, and between      *)
(* actions of a running game the turn holder is an active player.          *)
(***************************************************************************)
C15_EliminationIsPermanent ==
    [][/\ \A p \in Seats :
            (~players[p].active /\ ~AnyStart)
               => /\ Seats' = Seats
                  /\ players'[p] = players[p]
                  /\ turn_counter' = p => turn_counter = p
                  /\ PlayNaming(p)
                        => /\ result' = Err(CannotTargetEliminatedPlayer)
                           /\ pc' = "returned"
                           /\ UNCHANGED GameFields
       /\ (state' = InProgress /\ pc' \in {"idle", "returned"})
              => players'[turn_counter'].active]_vars

\* a play aimed at an eliminated player has been rejected
C15_Witness ==
    /\ Rejected
    /\ state = InProgress
    /\ action.type = "PlayCard"
    /\ result.error = CannotTargetEliminatedPlayer
    /\ NamedTarget(action.details) # None
    /\ ~players[NamedTarget(action.details)[1]].active
    /\ CardOf(action.details) \in Range(players[turn_counter].hand)

(***************************************************************************)
(* C16  Phase discipline.  The phase goes from InProgress to Complete only *)
(* in an accepted PlayCard whose effect leaves exactly one active player   *)
(* or an empty deck, and every such PlayCard makes it Complete; Complete   *)
(* is left only by an accepted StartGame.  Between actions, InProgress     *)
(* implies at least 2 active players.  As claimed: and a non-empty deck.   *)
(* As amended: the deck may be empty, the turn holder having drawn its     *)
(* last card.                                                              *)
(***************************************************************************)
BetweenActions == pc \in {"idle", "returned"}

PhaseSteps ==
    /\ (state = InProgress /\ state' = Complete)
          => /\ AcceptedPlay
             /\ Cardinality(ActiveSeats') = 1 \/ deck' = <<>>
    /\ (AcceptedPlay /\ (Cardinality(ActiveSeats') = 1 \/ deck' = <<>>))
          => /\ state' = Complete
             /\ pc' = "returned"
    /\ (state = Complete /\ state' # Complete)
          => /\ AnyStart
             /\ result'.kind = "Ok"
             /\ state' = InProgress

C16_PhaseDiscipline ==
    [][/\ PhaseSteps
       /\ (state' = InProgress /\ BetweenActions')
             => Cardinality(ActiveSeats') >= 2]_vars

C16_PhaseDisciplineNonEmptyDeck ==
    [][/\ PhaseSteps
       /\ (state' = InProgress /\ BetweenActions')
             => (Cardinality(ActiveSeats') >= 2 /\ deck' # <<>>)]_vars

\* a game has ended on an empty deck, the turn holder having drawn its last card
C16_Witness ==
    /\ PlayedOk
    /\ state = Complete
    /\ deck = <<>>
    /\ Cardinality(ActiveSeats) >= 2
    /\ LastEvent.type = "GameOver"

(***************************************************************************)
(* C17  StartGame is a re-entrant reset.  In every phase a StartGame with  *)
(* n in 2..4 is accepted and leaves the phase InProgress, exactly n        *)
(* players, all active and unprotected with empty discard piles, seat 0    *)
(* holding 2 cards and every other seat 1 card, turn_counter = 0, a burned *)
(* card, and a deck of 16 - 1 - (3 if n = 2) - n - 1 cards; the outcome is *)
(* one that the same StartGame has on a newly constructed game.            *)
(***************************************************************************)
\* the outcomes of StartGame { players: n } on Game::new()
FreshStarts(n) ==
    {start_game([deck |-> Game_new.deck, burned_card |-> Game_new.burned_card,
                 players |-> Game_new.players, turn_counter |-> Game_new.turn_counter,
                 state |-> Game_new.state, events |-> <<>>, panic |-> FALSE],
                n, shuffled).g : shuffled \in Shuffles(n)}

FreshConfiguration(n) ==
    /\ result'.kind = "Ok"
    /\ pc' = "returned"
    /\ state' = InProgress
    /\ Seats' = 0..(n - 1)
    /\ \A i \in Seats' :
         /\ players'[i].active
         /\ ~players'[i].protected
         /\ players'[i].discards = <<>>
         /\ Len(players'[i].hand) = IF i = 0 THEN 2 ELSE 1
    /\ turn_counter' = 0
    /\ burned_card' # None
    /\ Len(deck') = 16 - 1 - (IF n = 2 THEN 3 ELSE 0) - n - 1
    /\ \E f \in FreshStarts(n) :
         /\ <<deck', burned_card', players', turn_counter', state'>>
               = <<f.deck, f.burned_card, f.players, f.turn_counter, f.state>>
         /\ result'.events = f.events

C17_StartGameResets ==
    [][(AnyStart /\ action'.players \in 2..4)
           => FreshConfiguration(action'.players)]_vars

\* a 3-player game has been set up
C17_Witness ==
    /\ StartedOk
    /\ action.players = 3
    /\ state = InProgress
    /\ Len(deck) = 11
    /\ Len(players[0].hand) = 2
    /\ players[2].active

(***************************************************************************)
(* C18  Sole-survivor ending.  Whenever an accepted card's effect leaves   *)
(* exactly one active player, the call returns with the phase Complete and *)
(* GameOver naming exactly that player as its last and only GameOver       *)
(* event, no ReadyToPlay among its events and no card dealt for a next     *)
(* turn, whether the deck is empty or not.                                 *)
(***************************************************************************)
SoleSurvivorStep ==
    LET evs == result'.events
        survivor == CHOOSE i \in ActiveSeats' : TRUE
    IN /\ pc' = "returned"
       /\ result'.kind = "Ok"
       /\ state' = Complete
       /\ evs[Len(evs)] = GameOver(<<survivor>>)
       /\ \A k \in 1..(Len(evs) - 1) : evs[k].type \notin {"GameOver", "ReadyToPlay"}
       /\ evs[Len(evs) - 1].type \in {"EliminatePlayer", "RevealCard"}
       /\ UNCHANGED turn_counter

C18_SoleSurvivorEnding ==
    [][(AcceptedPlay /\ Cardinality(ActiveSeats') = 1) => SoleSurvivorStep]_vars

\* seat 0 of a 2-player game has played the Princess
C18_Witness ==
    /\ PlayedOk
    /\ NumPlayers = 2
    /\ action = [type |-> "PlayCard", player_idx |-> 0, details |-> PlayPrincess]
    /\ result.events = <<PlayCardEvent(0, Princess), EliminatePlayer(0), GameOver(<<1>>)>>
    /\ state = Complete

(***************************************************************************)
(* C19  Prince effect.  For every accepted Prince play the target (who may *)
(* be the acting player) discards the single card they hold (DiscardCard). *)
(* If it is the Princess they are eliminated and get no new card.          *)
(* Otherwise they are dealt exactly one card (DealCard): the top card of   *)
(* the deck when the deck is not empty, the burned card when it is.        *)
(***************************************************************************)
PrinceStep ==
    LET a == action'.player_idx
        t == action'.details.target
        before == IF t = a THEN Without(players[a].hand, Prince) ELSE players[t].hand
        held == before[1]
        played == IF t = a THEN <<Prince>> ELSE <<>>
        dealt == IF deck # <<>> THEN deck[Len(deck)] ELSE burned_card[1]
    IN /\ Len(before) = 1
       /\ StepEvents[1] = PlayCardEvent(a, Prince)
       /\ StepEvents[2] = DiscardCard(t, held)
       /\ players'[t].discards = players[t].discards \o played \o <<held>>
       /\ EffectEnds(3)
       /\ \A i \in Seats \ {a, t} : players'[i] = players[i]
       /\ IF held = Princess
          THEN /\ StepEvents[3] = EliminatePlayer(t)
               /\ ~players'[t].active
               /\ players'[t].hand = <<>>
               /\ deck' = deck
               /\ \A k \in DOMAIN StepEvents : StepEvents[k].type # "DealCard"
          ELSE /\ StepEvents[3] = DealCard(t, dealt)
               /\ players'[t].active
               /\ players'[t].hand = <<dealt>>
               /\ deck' = IF deck # <<>> THEN SubSeq(deck, 1, Len(deck) - 1) ELSE <<>>
               /\ ActiveSeats' = ActiveSeats

C19_PrinceEffect ==
    [][(AcceptedPlay /\ action'.details.details = "PlayPrince") => PrinceStep]_vars

\* a Prince played with the deck empty has dealt the burned card to its target:
\* that card is now counted once more than Deck::new() holds it
C19_Witness ==
    /\ PlayedOk
    /\ action.details.details = "PlayPrince"
    /\ deck = <<>>
    /\ result.events[3] = DealCard(action.details.target, burned_card[1])
    /\ players[action.details.target].hand = burned_card
    /\ CardsHeld(burned_card[1]) + CountIn(removed, burned_card[1])
          = CountIn(Deck_new, burned_card[1]) + 1

(***************************************************************************)
(* C20  King effect.  For every accepted King play with a target, after    *)
(* the effect the acting player's hand is exactly the card the target held *)
(* and the target's hand is exactly the card the acting player held beside *)
(* the King; SwapHands carries both prior cards and both seat indices; the *)
(* active and protected flags of the two players do not change.            *)
(***************************************************************************)
KingStep ==
    LET a == action'.player_idx
        t == action'.details.target_idx[1]
        mine == Without(players[a].hand, King)[1]
        theirs == players[t].hand[1]
    IN /\ t # a
       /\ Len(players[a].hand) = 2
       /\ Len(players[t].hand) = 1
       /\ StepEvents[1] = PlayCardEvent(a, King)
       /\ StepEvents[2] = SwapHands(a, mine, t, theirs)
       /\ EffectEnds(2)
       /\ players'[a].hand = <<theirs>>
       /\ players'[t].hand = <<mine>>
       /\ \A i \in {a, t} : /\ players'[i].active = players[i].active
                            /\ players'[i].protected = players[i].protected
       /\ \A i \in Seats \ {a, t} : players'[i] = players[i]

C20_KingEffect ==
    [][(AcceptedPlay /\ action'.details.details = "PlayKing"
                     /\ action'.details.target_idx # None) => KingStep]_vars

\* a King has swapped two hands of different ranks
C20_Witness ==
    /\ pc = "next_player"
    /\ action.details.details = "PlayKing"
    /\ Len(events) = 2
    /\ events[2].type = "SwapHands"
    /\ events[2].player_card # events[2].target_card
    /\ players[action.player_idx].hand = <<events[2].target_card>>
    /\ players[events[2].target_idx].hand = <<events[2].player_card>>

(***************************************************************************)
(* C21  Determinism.  The outcome of every action (its result, events or   *)
(* error, and the state it leaves) is a function of the state before and   *)
(* of the action, and for StartGame of the shuffle outcome alone: the      *)
(* state after StartGame is the one StartGame leaves on a newly            *)
(* constructed engine whose shuffle gave the same deck order.  Two engines *)
(* that start from the same shuffle outcome and receive the same actions   *)
(* therefore return the same results and reach the same states.            *)
(***************************************************************************)
\* a newly constructed engine
FreshGame ==
    [deck |-> Game_new.deck, burned_card |-> Game_new.burned_card,
     players |-> Game_new.players, turn_counter |-> Game_new.turn_counter,
     state |-> Game_new.state, events |-> <<>>, panic |-> FALSE]

\* the cards dealt to the seats idx, idx - 1, ..., 1 at set-up, last dealt first
RECURSIVE FirstCards(_, _)
FirstCards(pl, idx) ==
    IF idx < 1 THEN <<>> ELSE <<pl[idx].hand[1]>> \o FirstCards(pl, idx - 1)

\* the deck order the shuffle of a StartGame left, read off the state after it:
\* the deck, then (drawn last to first) seat 0's second card, the first card
\* of every seat, the cards removed from the game and the burned card
ShuffleOutcome(dk, burned, pl, rem) ==
    dk \o <<pl[0].hand[2]>> \o FirstCards(pl, Cardinality(DOMAIN pl) - 1)
       \o <<pl[0].hand[1]>> \o Reverse(rem) \o burned

\* the state and the result a PlayCard leaves at the end of the action's step
PlayOutcome(g, idx, d) ==
    LET r == play_card_effect(g, idx, d)
        active == active_players(r.g)
        over == end_game_with_winners(r.g, IF Len(active) = 1 THEN active
                                           ELSE calculate_winners(r.g).winners)
    IN IF r.err # None THEN [g |-> r.g, result |-> Err(r.err[1]), pc |-> "returned"]
       ELSE IF r.g.panic THEN [g |-> r.g, result |-> Pending, pc |-> "panicked"]
       ELSE IF Len(active) = 1 THEN [g |-> over, result |-> Ok(over.events), pc |-> "returned"]
       ELSE IF Deck_is_empty(r.g.deck)
           THEN IF calculate_winners(r.g).panic
                THEN [g |-> over, result |-> Pending, pc |-> "panicked"]
                ELSE [g |-> over, result |-> Ok(over.events), pc |-> "returned"]
       ELSE [g |-> r.g, result |-> Pending, pc |-> "next_player"]

Leaves(g) ==
    <<deck', burned_card', players', turn_counter', state'>>
        = <<g.deck, g.burned_card, g.players, g.turn_counter, g.state>>

DeterministicStep ==
    /\ (AnyStart /\ action'.players \in 2..4)
          => LET f == start_game(FreshGame, action'.players,
                                 ShuffleOutcome(deck', burned_card', players', removed'))
             IN /\ ShuffleOutcome(deck', burned_card', players', removed')
                      \in Shuffles(action'.players)
                /\ Leaves(f.g)
                /\ result' = Ok(f.g.events)
                /\ pc' = "returned"
    /\ (AnyStart /\ action'.players \notin 2..4)
          => /\ result' = Err(InvalidNumberOfPlayers(action'.players))
             /\ pc' = "returned"
             /\ UNCHANGED GameFields
    /\ AnyPlay
          => LET o == PlayOutcome(Self, action'.player_idx, action'.details)
             IN /\ Leaves(o.g)
                /\ result' = o.result
                /\ pc' = o.pc
                /\ pc' = "next_player" => events' = o.g.events
    /\ (pc = "next_player" /\ ~players[player_idx].active)
          => /\ UNCHANGED <<GameFields, pc, result, events>>
             /\ player_idx' = (turn_counter + 1) % NumPlayers
    /\ (pc = "next_player" /\ players[player_idx].active)
          => LET o == start_player_turn(draw_and_give_card_to_player(Running, player_idx),
                                        player_idx)
             IN /\ Leaves(o)
                /\ pc' = (IF o.panic THEN "panicked" ELSE "returned")
                /\ ~o.panic => result' = Ok(o.events)
    /\ pc = "returned" => UNCHANGED GameFields

C22_NoCrash ==
    /\ pc # "panicked"
    /\ state # NotStarted => (burned_card # None /\ turn_counter \in Seats)
    /\ pc = "next_player" => player_idx \in Seats

\* the turn holder has named a seat that does not exist as the target of a
\* card they hold, and the call has returned an error
C22_Witness ==
    /\ Rejected
    /\ state = InProgress
    /\ action.type = "PlayCard"
    /\ action.player_idx = turn_counter
    /\ NamedTarget(action.details) # None
    /\ NamedTarget(action.details)[1] >= NumPlayers
    /\ result.error = PlayerDoesNotExist(NamedTarget(action.details)[1])
    /\ CardOf(action.details) \in Range(players[turn_counter].hand)

(***************************************************************************)
(* C23  Hand-size invariant.  Between actions of a running game the turn   *)
(* holder holds exactly 2 cards and every other active player exactly 1;   *)
(* an eliminated player holds at most 1 card; no player ever holds more    *)
(* than 2 cards.                                                           *)
(***************************************************************************)
C23_HandSizes ==
    /\ (state = InProgress /\ BetweenActions)
          => \A i \in ActiveSeats :
                Len(players[i].hand) = IF i = turn_counter THEN 2 ELSE 1
    /\ \A i \in Seats \ ActiveSeats : Len(players[i].hand) <= 1
    /\ \A i \in Seats : Len(players[i].hand) <= 2

\* a game of 3 or more players goes on after a player has played the Princess
\* and keeps their other card
C23_Witness ==
    /\ state = InProgress
    /\ pc = "idle"
    /\ NumPlayers >= 3
    /\ \E i \in Seats \ ActiveSeats : Len(players[i].hand) = 1
    /\ Len(players[turn_counter].hand) = 2

(***************************************************************************)
(* C24  Discard piles agree with the event log.  Every action adds to each *)
(* seat's discard pile exactly, in order, the cards its events report for  *)
(* that seat in PlayCard, DiscardCard and RevealCard (and StartGame leaves *)
(* every pile empty), so that at every point of a game each pile is the    *)
(* sequence of the cards so reported; a King swap adds the King alone.     *)
(***************************************************************************)
\* the seat an event reports a discarded card for, and whether it reports one
ReportsDiscard(e, i) ==
    \/ e.type \in {"PlayCard", "RevealCard"} /\ e.player_idx = i
    \/ e.type = "DiscardCard" /\ e.target_idx = i

ReportedFor(evs, i) ==
    LET kept == SelectSeq(evs, LAMBDA e : ReportsDiscard(e, i))
    IN [k \in DOMAIN kept |-> kept[k].card]

C24_DiscardsAgreeWithEvents ==
    [][/\ (AnyStart /\ result'.kind = "Ok")
             => \A i \in Seats' : players'[i].discards = <<>>
       /\ (AnyPlay /\ pc' # "panicked")
             => \A i \in Seats :
                   players'[i].discards
                      = players[i].discards
                          \o (IF result'.kind = "Err" THEN <<>> ELSE ReportedFor(StepEvents, i))
       /\ pc # "idle"
             => \A i \in Seats : players'[i].discards = players[i].discards]_vars

(***************************************************************************)
(* C25  The burned card is in exactly one place.  When a Prince played on  *)
(* an empty deck deals the burned card to its target as their new card,    *)
(* the burned-card slot becomes empty; in every other step of a game the   *)
(* slot keeps its card.                                                    *)
(***************************************************************************)
\* an accepted Prince deals a replacement card while the deck is empty
BurnedCardDealt ==
    /\ AcceptedPlay
    /\ action'.details.details = "PlayPrince"
    /\ deck = <<>>
    /\ Len(StepEvents) >= 3
    /\ StepEvents[3].type = "DealCard"

C25_BurnedCardInOnePlace ==
    [][/\ BurnedCardDealt => burned_card' = None
       /\ (~BurnedCardDealt /\ ~AnyStart) => UNCHANGED burned_card]_vars

(***************************************************************************)
(* C26  No deadlock.  In every reachable state of a running game between   *)
(* actions the turn holder has at least one PlayCard that is accepted:     *)
(* the call passes every check and returns Ok with its events.             *)
(***************************************************************************)
\* PlayCard by the turn holder with details d passes every check of play_card
PassesChecks(d) ==
    LET o == PlayOutcome(Self, turn_counter, d)
    IN o.result.kind # "Err" /\ o.pc # "panicked"

\* ... and the call returns: the game is over, or the seat next_player looks
\* at is active
ReturnsOk(d) ==
    LET o == PlayOutcome(Self, turn_counter, d)
    IN \/ o.pc = "returned" /\ o.result.kind = "Ok"
       \/ o.pc = "next_player" /\ o.g.players[(o.g.turn_counter + 1) % NumPlayers].active

\* the turn holder always has a play that passes the checks
C26_SomePlayPassesChecks ==
    (state = InProgress /\ pc = "idle") => \E d \in Details : PassesChecks(d)

C26_NoDeadlock ==
    (state = InProgress /\ pc = "idle") => \E d \in Details : ReturnsOk(d)

(***************************************************************************)
(* C27  Every game ends.  StartGame(n) leaves D = 9, 11, 10 cards in the   *)
(* deck for n = 2, 3, 4.  A rejected action changes nothing.  An accepted  *)
(* PlayCard never adds to the deck and either sets the phase to Complete   *)
(* or goes on to deal a card to the next player, which takes one card off  *)
(* the deck: the search for that player ends within one round of the       *)
(* seats.  Hence at most D + 1 accepted PlayCard actions per game.         *)
(***************************************************************************)
DeckAfterSetUp(n) == CASE n = 2 -> 9 [] n = 3 -> 11 [] OTHER -> 10

\* the steps of an action, the end of the search for the next player aside
DeckSteps ==
    /\ (AnyStart /\ result'.kind = "Ok") => Len(deck') = DeckAfterSetUp(action'.players)
    /\ (pc = "idle" /\ result'.kind = "Err") => UNCHANGED GameFields
    /\ AcceptedPlay
          => /\ Len(deck') <= Len(deck)
             /\ \/ state' = Complete /\ pc' = "returned"
                \/ state' = InProgress /\ pc' = "next_player" /\ Len(deck') >= 1
    /\ (pc = "next_player" /\ pc' = "returned")
          => /\ Len(deck') = Len(deck) - 1
             /\ state' = InProgress
    /\ (pc = "next_player" /\ pc' = "next_player") => UNCHANGED GameFields
    /\ pc = "returned" => UNCHANGED GameFields

\* what holds of the deck whether the search ends or not
C27_DeckNeverGrows == [][DeckSteps]_vars

C27_EveryGameEnds ==
    [][/\ DeckSteps
       /\ pc = "next_player" => spins' < NumPlayers]_vars

====
